---- MODULE Spec2Model ----
(***************************************************************************)
(* A model of the useEffectEvent polyfill (hooks/useEffectEvent) and of    *)
(* the components of the demo that consume it.                             *)
(*                                                                         *)
(* The polyfill is three statements: a ref object created once per mounted *)
(* component (useRef), an unconditional write of the supplied function to  *)
(* the ref during render, and a callback memoised with an empty dependency *)
(* list (useCallback) whose body dereferences the ref when it is called.   *)
(* Ref objects and callback closures are heap objects with an identity;    *)
(* the hook slots of a mounted component remember which ones it owns.      *)
(***************************************************************************)
EXTENDS Integers, Sequences, FiniteSets, TLC

\* ------------------------------------------------------------------ bounds
MaxRenders == 2    \* renders (calls of the hook) of one logical instance
MaxWithRenders == 4  \* renders of one mount of a demo component
MaxDemoRenders == 7  \* renders of one mount of DemoApp
MaxClock == 20       \* seconds the wall clock runs for under callers of handleLog
MaxClicks == 1       \* lines of a click the log buffer holds at a time
MaxBonus == 2        \* points one team member is given
MaxQuizClock == 1    \* seconds the wall clock runs for while the quiz is used

\* Two logical instances: two components mounted independently of each
\* other, each calling the hook once per render.
Inst == {1, 2}

\* ------------------------------------------------------------------ values
\* JavaScript values are tagged pairs, so that values of different types
\* can be compared.
Num(n)    == <<"num", n>>
Str(s)    == <<"str", s>>
Undefined == <<"undefined", 0>>
NaN       == <<"nan", 0>>

\* A function value is a tuple: what the function does, followed by what its
\* closure captured.  These are the functions a caller may hand to the hook;
\* NullFn stands for a cell that holds no function.
Fns == {<<"retA">>, <<"retB">>, <<"sub">>, <<"throw">>, <<"set">>}
NullFn == <<"null">>

\* Argument lists a caller may pass to the handle.
ArgLists == {<<>>, <<Num(2), Num(3)>>, <<Num(3), Num(2)>>}

\* Identities of heap objects: an object is named by the instance and the
\* render that allocated it (a ref object) or evaluated it (a closure).
NoRef    == <<0, 0>>
NoHandle == <<0, 0>>

VARIABLES
  phase,      \* instance -> "none" | "live" | "disposed"
  renders,    \* instance -> renders so far
  hooks,      \* instance -> [ref, cb]: the state of useRef / useCallback
  refs,       \* heap: ref object -> [current, sets]
  closures,   \* heap: closure -> the ref object in its environment
  returned,   \* instance -> the value the last call of the hook returned
  supplied,   \* instance -> the function passed to the last call of the hook
  swap,       \* instance -> how that function relates to the one before it
  timer,      \* instance -> handle held by its interval, or NoHandle
  out,        \* variable outside the hook that the "set" function assigns
  called,     \* the last handle invocation since the latest render: what was
              \* passed, what ran and what came back
  \* WithUseEffectEvent, mounted as instance 1
  wName,      \* its state `name`
  wOnLog,     \* its prop onLog: which function object the parent passed
  wEffects,   \* effectRecreationCount.current
  wReported,  \* the last count handed to onRecreationChange
  wTimers,    \* the intervals the instance set and did not clear, each
              \* named by the run of the timer effect that set it
  wTickAt,    \* the clock reading when its interval was set or last fired
  \* DemoApp and the clock
  now,        \* the wall clock, in the seconds toLocaleTimeString shows
  dPhase,     \* DemoApp: "none" | "live"
  dRenders,   \* its renders so far
  triggerRerender,     \* its state triggerRerender
  handleLogMemo,       \* its useCallback slot for handleLog: [deps, id]
  logs,       \* its state logs
  withoutRecreations,  \* its state withoutRecreations
  logCall,    \* the last call of handleLog by a caller outside the model:
              \* its message, the clock reading, whether it was retained
  without,    \* WithoutUseEffectEvent: the component's state and interval
  activeComponent,     \* DemoApp's state activeComponent
  switched,   \* whether the last event was a click on a demo-mode button
  \* ThinkTank and localStorage
  qPhase,     \* ThinkTank: "none" | "live"
  currentQuestion, selectedAnswers, showResults, showExplanation,
  showLeaderboard, awardMember, awardedForQuestion,
  teamData,   \* its state teamData; after an unmount, what it was then
  storage,    \* localStorage: the item 'thinkTankTeamData'
  qLast       \* what the last event was to the team data: "mount", the
              \* outcome of a click on Give +1 Point, or "none"

utilVars == <<phase, renders, hooks, refs, closures, returned,
              supplied, swap, timer, out, called>>

withVars == <<wName, wOnLog, wEffects, wReported, wTimers>>

demoVars == <<wTickAt, now, dPhase, dRenders, triggerRerender, handleLogMemo,
              logs, withoutRecreations, logCall, without>>

quizVars == <<qPhase, currentQuestion, selectedAnswers, showResults,
              showExplanation, showLeaderboard, awardMember,
              awardedForQuestion, teamData, storage, qLast>>

modeVars == <<activeComponent, switched>>

appVars == <<demoVars, quizVars, modeVars>>

vars == <<utilVars, withVars, appVars>>

\* --------------------------------------------------- the wrapped functions
Arg(args, k) == IF k <= Len(args) THEN args[k] ELSE Undefined

Minus(a, b) == IF a[1] = "num" /\ b[1] = "num" THEN Num(a[2] - b[2]) ELSE NaN

\* Calling a function value directly: what it returns or raises.
Apply(fn, args) ==
  CASE fn[1] = "retA"     -> <<"return", Str("A")>>
    [] fn[1] = "retB"     -> <<"return", Str("B")>>
    [] fn[1] = "sub"      -> <<"return", Minus(Arg(args, 1), Arg(args, 2))>>
    [] fn[1] = "throw"    -> <<"throw", Arg(args, 1)>>
    [] fn[1] = "set"      -> <<"return", Undefined>>
    [] fn[1] = "logEvent" -> <<"return", Undefined>>
    [] OTHER              -> <<"throw", Str("TypeError")>>

\* onLog(text): what the parent's function object f is called with.
OnLog(f, text) == <<"onLog", f, text>>

\* What a call of the function does outside the hook: "set" assigns its
\* argument to a variable, the function WithUseEffectEvent wraps hands
\* `WITH: ${message} - Name: ${name}` to the onLog it captured.
Effect(fn, args, sink) ==
  CASE fn[1] = "set"      -> Arg(args, 1)
    [] fn[1] = "logEvent" ->
         OnLog(fn[2], <<"WITH: ", Arg(args, 1), " - Name: ", fn[3]>>)
    [] OTHER              -> sink


\* ------------------------------------------------------ useEffectEvent(fn)
\* useRef allocates the ref object in the render that mounts the instance.
\* (Variant: one ref object at module level, shared by every caller.)
RefAlloc_shared(i, k) == <<1, 1>>

RefAlloc(i, k) == <<i, k>>

\* useRef(fn): the initial value is used only by the render that mounts.
UseRefNew(fn) == [current |-> fn, sets |-> 0]

\* ref.current = fn: every render, whatever the cell held.  sets counts the
\* assignments the ref object has seen.
\* (Variant: the assignment guarded by an equality check.)
SetCurrent_ifChanged(obj, fn) ==
  IF obj.current = fn THEN obj ELSE [current |-> fn, sets |-> obj.sets + 1]

SetCurrent(obj, fn) == [current |-> fn, sets |-> obj.sets + 1]

\* The heap after the first two statements of the hook, r being the ref
\* object of the calling component.
\* (Variant: the assignment left to an effect that has not run when the
\* hook returns, the ref created empty.)
StoreLatest_inEffect(heap, r, fn) ==
  IF r \in DOMAIN heap THEN heap
  ELSE (r :> [current |-> NullFn, sets |-> 0]) @@ heap

\* (Variant: the assignment missing, only useRef's initial value stored.)
StoreLatest_initOnly(heap, r, fn) ==
  IF r \in DOMAIN heap THEN heap ELSE (r :> UseRefNew(fn)) @@ heap

StoreLatest(heap, r, fn) ==
  LET h1 == IF r \in DOMAIN heap THEN heap ELSE (r :> UseRefNew(fn)) @@ heap
  IN  [h1 EXCEPT ![r] = SetCurrent(h1[r], fn)]

\* useRef: the ref object remembered by the hook slot; the freshly
\* allocated one only when the slot is still empty.
\* (Variant: a plain object literal instead of useRef, new on every render.)
UseRef_plain(slot, fresh) == fresh

UseRef(slot, fresh) == IF slot = NoRef THEN fresh ELSE slot

\* useCallback(arrow, []): the closure of the first render is kept, the
\* closures evaluated by later renders are dropped because [] never changes.
\* (Variant: no dependency list, so every render's closure is returned.)
UseCallback_noDeps(slot, fresh) == fresh

UseCallback(slot, fresh) == IF slot = NoHandle THEN fresh ELSE slot

\* (...args) => ref.current(...args): the rest parameter collects every
\* actual argument and the spread passes each of them on, in order.
Rest(actuals) == [k \in 1..Len(actuals) |-> actuals[k]]
Spread(arr)   == [k \in 1..Len(arr) |-> arr[k]]
\* (Variant: a single named parameter instead of the rest parameter.)
Forward_first(actuals) == IF actuals = <<>> THEN <<>> ELSE <<actuals[1]>>

Forward(actuals) == Spread(Rest(actuals))

\* The body of the handle, env being the ref object in the closure's
\* environment: dereference the ref now, call what it holds with the
\* forwarded arguments, return what that returns or let it raise.  The heap
\* is read, not written.
\* (Variant: the call wrapped in try/catch, the error swallowed.)
HandleRun_catch(heap, env, actuals) ==
  LET cur == heap[env].current
      res == Apply(cur, Forward(actuals))
  IN  [fn      |-> cur,
       passed  |-> Forward(actuals),
       outcome |-> IF res[1] = "throw" THEN <<"return", Undefined>> ELSE res,
       heap    |-> heap]

\* (Variant: a one-shot handle that empties the cell once it has called.)
HandleRun_consume(heap, env, actuals) ==
  LET cur == heap[env].current
  IN  [fn      |-> cur,
       passed  |-> Forward(actuals),
       outcome |-> Apply(cur, Forward(actuals)),
       heap    |-> [heap EXCEPT ![env].current = NullFn]]

HandleRun(heap, env, actuals) ==
  LET cur == heap[env].current
  IN  [fn      |-> cur,
       passed  |-> Forward(actuals),
       outcome |-> Apply(cur, Forward(actuals)),
       heap    |-> heap]

\* What the hook does when its component unmounts: it registers no effect
\* and no cleanup, so the ref object r is left as it is.
\* (Variant: a cleanup that empties the ref on unmount.)
HookUnmount_clear(heap, r) == [heap EXCEPT ![r].current = NullFn]

HookUnmount(heap, r) == heap

\* The handles somebody can call: the one the last render returned and the
\* one an interval holds.
Callable == {returned[i] : i \in Inst} \cup {timer[i] : i \in Inst}

\* Heap objects nobody can reach any more are garbage: a closure that is
\* neither the memoised one nor held by an interval, a ref object that no
\* mounted component and no live closure points to.
Restrict(f, S) == [x \in DOMAIN f \cap S |-> f[x]]

Collect(cl, rf, hk, rt, tm) ==
  LET roots  == {hk[i].cb : i \in Inst} \cup {rt[i] : i \in Inst}
                  \cup {tm[i] : i \in Inst}
      liveCl == Restrict(cl, roots)
      liveRf == {hk[i].ref : i \in Inst} \cup {liveCl[c] : c \in DOMAIN liveCl}
  IN  /\ closures' = liveCl
      /\ refs' = Restrict(rf, liveRf)

\* One call of useEffectEvent(fn) by instance i during its k-th render,
\* h being the hook slots it starts from.
Hooked(i, k, h, fn) ==
  LET r     == UseRef(h.ref, RefAlloc(i, k))
      fresh == <<i, k>>
  IN  [ref      |-> r,
       cb       |-> UseCallback(h.cb, fresh),
       closures |-> (fresh :> r) @@ closures,
       refs     |-> StoreLatest(refs, r, fn)]

\* The step in which that call, with result hd, happens: hook slots and
\* return value are updated; heap is the heap of ref objects at the end of
\* the step and tm the handles the intervals hold then.
HookStep(i, k, fn, hd, tm, heap) ==
  LET hk == [hooks EXCEPT ![i] = [ref |-> hd.ref, cb |-> hd.cb]]
      rt == [returned EXCEPT ![i] = hd.cb]
  IN  /\ hooks' = hk
      /\ returned' = rt
      /\ Collect(hd.closures, heap, hk, rt, tm)
      /\ supplied' = [supplied EXCEPT ![i] = fn]
      /\ swap' = [swap EXCEPT ![i] = IF k = 1 THEN "first"
                                      ELSE IF fn = supplied[i] THEN "same"
                                      ELSE "swapped"]

\* A render in which nothing but the hook touches the heap.
HookCall(i, k, h, fn) ==
  LET hd == Hooked(i, k, h, fn)
  IN  HookStep(i, k, fn, hd, timer, hd.refs)

\* An unmounted instance whose handle nobody holds can no longer be
\* called: what it was last given is forgotten with it.
Forget(i, tm) ==
  IF tm[i] = NoHandle
    THEN /\ renders' = [renders EXCEPT ![i] = 0]
         /\ supplied' = [supplied EXCEPT ![i] = NullFn]
         /\ swap' = [swap EXCEPT ![i] = "none"]
    ELSE UNCHANGED <<renders, supplied, swap>>

EmptyHooks == [ref |-> NoRef, cb |-> NoHandle]

\* An empty useCallback slot of DemoApp, and WithoutUseEffectEvent while it
\* is not mounted.
NoSlot == [deps |-> <<>>, id |-> 0]

\* teamData before ThinkTank was ever mounted, and localStorage.getItem
\* when nothing is stored under the key.
NoTeam == <<>>
NoItem == <<"null">>

NoLogCall == [text |-> <<"">>, at |-> 0, kept |-> FALSE]

\* setInterval and clearInterval on the intervals an instance has running;
\* n names the interval by the run of the timer effect that set it.
\* (Variant: the cleanup does not clear.)
SetInterval(running, n) == running \cup {n}

ClearInterval_none(running, n) == running

ClearInterval(running, n) == running \ {n}

NoTimer == [live |-> FALSE, onLog |-> 0, name |-> "John", at |-> 0]

NoWithout == [phase |-> "none", name |-> "John", renders |-> 0, timers |-> {},
              effects |-> 0, onLog |-> 0, timer |-> NoTimer]

NoCall == [handle |-> NoHandle, args |-> <<>>, fn |-> NullFn,
           passed |-> <<>>, outcome |-> <<"none", Undefined>>]

Init ==
  /\ phase = [i \in Inst |-> "none"]
  /\ renders = [i \in Inst |-> 0]
  /\ hooks = [i \in Inst |-> EmptyHooks]
  /\ refs = <<>>
  /\ closures = <<>>
  /\ returned = [i \in Inst |-> NoHandle]
  /\ supplied = [i \in Inst |-> NullFn]
  /\ swap = [i \in Inst |-> "none"]
  /\ timer = [i \in Inst |-> NoHandle]
  /\ out = Str("")
  /\ called = NoCall
  /\ wName = "John"
  /\ wOnLog = 0
  /\ wEffects = 0
  /\ wReported = 0
  /\ wTimers = {}
  /\ wTickAt = 0
  /\ now = 0
  /\ dPhase = "none"
  /\ dRenders = 0
  /\ triggerRerender = 0
  /\ handleLogMemo = NoSlot
  /\ logs = <<>>
  /\ withoutRecreations = 0
  /\ logCall = NoLogCall
  /\ without = NoWithout
  /\ activeComponent = "both"
  /\ switched = FALSE
  /\ qPhase = "none"
  /\ currentQuestion = 0
  /\ selectedAnswers = <<>>
  /\ showResults = FALSE
  /\ showExplanation = FALSE
  /\ showLeaderboard = FALSE
  /\ awardMember = ""
  /\ awardedForQuestion = <<>>
  /\ teamData = NoTeam
  /\ storage = NoItem
  /\ qLast = "none"

\* Instance i mounts: its first render calls the hook.
Mount(i, fn) ==
  /\ phase[i] = "none"
  /\ phase' = [phase EXCEPT ![i] = "live"]
  /\ renders' = [renders EXCEPT ![i] = 1]
  /\ HookCall(i, 1, hooks[i], fn)
  /\ called' = NoCall
  /\ UNCHANGED <<timer, out, withVars, appVars>>

\* Instance i renders again: the hook is called again.
Rerender(i, fn) ==
  /\ phase[i] = "live"
  /\ renders[i] < MaxRenders
  /\ renders' = [renders EXCEPT ![i] = @ + 1]
  /\ HookCall(i, renders[i] + 1, hooks[i], fn)
  /\ called' = NoCall
  /\ UNCHANGED <<phase, timer, out, withVars, appVars>>

\* Instance i unmounts.  The hook registers no cleanup: the hook slots go
\* away with the component, the heap objects stay as long as somebody holds
\* them.
Dispose(i) ==
  /\ phase[i] = "live"
  /\ phase' = [phase EXCEPT ![i] = "disposed"]
  /\ hooks' = [hooks EXCEPT ![i] = EmptyHooks]
  /\ returned' = [returned EXCEPT ![i] = NoHandle]
  /\ Collect(closures, HookUnmount(refs, hooks[i].ref),
             [hooks EXCEPT ![i] = EmptyHooks],
             [returned EXCEPT ![i] = NoHandle], timer)
  /\ Forget(i, timer)
  /\ UNCHANGED <<timer, out, called, withVars, appVars>>

\* A consumer of instance i hands the handle it got from the hook to an
\* interval; a later one cancels it.
StartTimer(i) ==
  /\ phase[i] = "live"
  /\ timer[i] = NoHandle
  /\ timer' = [timer EXCEPT ![i] = returned[i]]
  /\ UNCHANGED <<phase, renders, hooks, refs, closures, returned, supplied,
                 swap, out, called, withVars, appVars>>

StopTimer(i) ==
  /\ timer[i] # NoHandle
  /\ timer' = [timer EXCEPT ![i] = NoHandle]
  /\ Collect(closures, refs, hooks, returned, [timer EXCEPT ![i] = NoHandle])
  /\ IF phase[i] = "disposed"
       THEN Forget(i, [timer EXCEPT ![i] = NoHandle])
       ELSE UNCHANGED <<renders, supplied, swap>>
  /\ UNCHANGED <<phase, hooks, returned, out, called, withVars, appVars>>

\* Somebody calls handle h with the given actual arguments.
Invoke(h, actuals) ==
  /\ h \in Callable
  /\ h # NoHandle
  /\ LET run == HandleRun(refs, closures[h], actuals)
     IN  /\ refs' = run.heap
         /\ out' = Effect(run.fn, run.passed, out)
         /\ called' = [handle |-> h, args |-> actuals,
                       fn |-> run.fn, passed |-> run.passed,
                       outcome |-> run.outcome]
  /\ UNCHANGED <<phase, renders, hooks, closures, returned, supplied, swap,
                 timer, withVars, appVars>>

Next ==
  \/ \E i \in Inst, fn \in Fns : Mount(i, fn)
  \/ \E i \in Inst, fn \in Fns : Rerender(i, fn)
  \/ \E i \in Inst : Dispose(i)
  \/ \E i \in Inst : StartTimer(i)
  \/ \E i \in Inst : StopTimer(i)
  \/ \E h \in Callable, a \in ArgLists : Invoke(h, a)

Spec == Init /\ [][Next]_vars

\* ------------------------------------------------------ WithUseEffectEvent
\* The component is instance 1.  Its parent is the environment: it mounts and
\* unmounts the component and may pass another onLog function object, which
\* makes the memoised component render again.
W == 1

\* The function objects the parent may pass as onLog.
OnLogIds == {1, 2, 3}

\* (message) => onLog(`WITH: ${message} - Name: ${name}`), closing over the
\* onLog and the name of the render that evaluated it.
LogEventFn(f, name) == <<"logEvent", f, name>>

\* The texts the timer effect hands to onLogEvent (the clock reading in the
\* creation and destruction texts is left out).
CreatedMsg(n)   == <<"Timer created #", n>>
TickMsg(n)      == <<"Timer tick #", n, " - Always gets FRESH name!">>
DestroyedMsg(n) == <<"Timer #", n, " destroyed">>

OtherName(name) == IF name = "John" THEN "Jane" ELSE "John"

CallRecord(h, actuals, run) ==
  [handle |-> h, args |-> actuals, fn |-> run.fn, passed |-> run.passed,
   outcome |-> run.outcome]

\* The parent mounts the component with onLog = f.  The first render calls
\* the hook; after the commit the mount effect zeroes the counter and reports
\* 0, then the timer effect counts 1, reports it, logs through onLogEvent and
\* starts the interval, whose callback and cleanup keep the onLogEvent of
\* this render.
WMount(f) ==
  /\ phase[W] # "live"
  /\ LET fn  == LogEventFn(f, "John")
         hd  == Hooked(W, 1, EmptyHooks, fn)
         msg == <<CreatedMsg(1)>>
         run == HandleRun(hd.refs, hd.closures[hd.cb], msg)
         tm  == [timer EXCEPT ![W] = hd.cb]
     IN  /\ HookStep(W, 1, fn, hd, tm, run.heap)
         /\ timer' = tm
         /\ out' = Effect(run.fn, run.passed, out)
         /\ called' = CallRecord(hd.cb, msg, run)
  /\ phase' = [phase EXCEPT ![W] = "live"]
  /\ renders' = [renders EXCEPT ![W] = 1]
  /\ wName' = "John"
  /\ wOnLog' = f
  /\ wEffects' = 1
  /\ wReported' = 1
  /\ wTimers' = SetInterval({}, 1)

\* The dependency list of the timer effect: [].
\* (Variant: onLog listed as a dependency.)
WithTimerDeps_onLog(onLog, name) == <<onLog>>

WithTimerDeps(onLog, name) == <<>>

\* One render of the mounted component with prop onLog = f and state name,
\* sink being what was last handed to onLog before it.  The render calls the
\* hook; after the commit the timer effect runs again only if its
\* dependencies differ from those of the render before: then its cleanup
\* clears the interval and logs, and the effect counts, reports, logs and
\* sets a new interval.
WRender(f, name, sink) ==
  LET k  == renders[W] + 1
      fn == LogEventFn(f, name)
      hd == Hooked(W, k, hooks[W], fn)
  IN  /\ renders' = [renders EXCEPT ![W] = k]
      /\ IF WithTimerDeps(f, name) # WithTimerDeps(wOnLog, wName)
           THEN LET bye == HandleRun(hd.refs, hd.closures[timer[W]],
                                     <<DestroyedMsg(wEffects)>>)
                    msg == <<CreatedMsg(wEffects + 1)>>
                    hi  == HandleRun(bye.heap, hd.closures[hd.cb], msg)
                    tm  == [timer EXCEPT ![W] = hd.cb]
                IN  /\ HookStep(W, k, fn, hd, tm, hi.heap)
                    /\ timer' = tm
                    /\ out' = Effect(hi.fn, hi.passed,
                                     Effect(bye.fn, bye.passed, sink))
                    /\ called' = CallRecord(hd.cb, msg, hi)
                    /\ wEffects' = wEffects + 1
                    /\ wReported' = wEffects + 1
                    /\ wTimers' = SetInterval(ClearInterval(wTimers, wEffects),
                                               wEffects + 1)
           ELSE /\ HookStep(W, k, fn, hd, timer, hd.refs)
                /\ out' = sink
                /\ called' = NoCall
                /\ UNCHANGED <<timer, wEffects, wReported, wTimers>>

\* The parent renders again and passes another onLog: the props differ, so
\* the memoised component renders.
WParentRerender(f) ==
  /\ phase[W] = "live"
  /\ f # wOnLog
  /\ renders[W] < MaxWithRenders
  /\ WRender(f, wName, out)
  /\ wOnLog' = f
  /\ UNCHANGED <<phase, wName>>

\* Toggle Name: setName(newName), onLog called directly with the new name,
\* then the render the state change causes.
WToggleName ==
  /\ phase[W] = "live"
  /\ renders[W] < MaxWithRenders
  /\ LET newName == OtherName(wName)
     IN  /\ wName' = newName
         /\ WRender(wOnLog, newName,
                    OnLog(wOnLog, <<"WITH: Name changed to ", newName,
                      " - Timer will show this NEW value in next tick!">>))
  /\ UNCHANGED <<phase, wOnLog>>

\* The interval fires: its callback calls the onLogEvent it holds.
WTick ==
  /\ phase[W] = "live"
  /\ timer[W] # NoHandle
  /\ LET msg == <<TickMsg(wEffects)>>
         run == HandleRun(refs, closures[timer[W]], msg)
     IN  /\ refs' = run.heap
         /\ out' = Effect(run.fn, run.passed, out)
         /\ called' = CallRecord(timer[W], msg, run)
  /\ UNCHANGED <<phase, renders, hooks, closures, returned, supplied, swap,
                 timer, withVars>>

\* The parent unmounts the component.  Cleanups run in the order the effects
\* were declared: whatever the hook registered (nothing), then the timer
\* effect's cleanup, which clears the interval and calls onLogEvent once
\* more.  After that the component's state and hook slots are gone.
WCleanup ==
  /\ phase[W] = "live"
  /\ LET heap0 == HookUnmount(refs, hooks[W].ref)
         msg   == <<DestroyedMsg(wEffects)>>
         run   == HandleRun(heap0, closures[timer[W]], msg)
         hk    == [hooks EXCEPT ![W] = EmptyHooks]
         rt    == [returned EXCEPT ![W] = NoHandle]
         tm    == [timer EXCEPT ![W] = NoHandle]
     IN  /\ out' = Effect(run.fn, run.passed, out)
         /\ called' = CallRecord(timer[W], msg, run)
         /\ hooks' = hk
         /\ returned' = rt
         /\ timer' = tm
         /\ Collect(closures, run.heap, hk, rt, tm)
         /\ Forget(W, tm)
  /\ phase' = [phase EXCEPT ![W] = "disposed"]
  /\ wName' = "John"
  /\ wOnLog' = 0
  /\ wTimers' = ClearInterval(wTimers, wEffects)
  /\ wEffects' = 0

\* Nothing is reported to the parent at the unmount.
WUnmount == WCleanup /\ UNCHANGED wReported

\* The component under a parent that is nothing but its environment.
NextWith ==
  \/ \E f \in OnLogIds : WMount(f) /\ UNCHANGED appVars
  \/ \E f \in OnLogIds : WParentRerender(f) /\ UNCHANGED appVars
  \/ WToggleName /\ UNCHANGED appVars
  \/ WTick /\ UNCHANGED appVars
  \/ WUnmount /\ UNCHANGED appVars

SpecWith == Init /\ [][NextWith]_vars

\* ------------------------------------------------------------------ DemoApp
\* The numbers in prev.slice(-20) and in .slice(-15).
LogKeep == 20
ShowLast == 15

\* `[${timestamp}] ${message}`, the timestamp being the clock reading.
Stamp(t, message) == <<"[", t, "] ", message>>

\* arr.slice(-n): the last n elements, all of them when there are fewer.
SliceLast(arr, n) ==
  IF Len(arr) <= n THEN arr ELSE SubSeq(arr, Len(arr) - n + 1, Len(arr))

\* The updater handleLog hands to setLogs.
\* (Variant: no comparison with the last entry.)
AppendLog_always(prev, logWithTime) ==
  Append(SliceLast(prev, LogKeep), logWithTime)

AppendLog(prev, logWithTime) ==
  IF Len(prev) > 0 /\ prev[Len(prev)] = logWithTime
    THEN prev
    ELSE Append(SliceLast(prev, LogKeep), logWithTime)

\* handleLog(message) at clock reading t, prev being the buffer it updates.
HandleLog(prev, t, message) == AppendLog(prev, Stamp(t, message))

\* Several calls of handleLog in one event, in the order they are made.
RECURSIVE HandleLogs(_, _, _)
HandleLogs(prev, t, messages) ==
  IF Len(messages) = 0 THEN prev
  ELSE HandleLogs(HandleLog(prev, t, Head(messages)), t, Tail(messages))

\* useCallback(fn, deps): the memoised function while the dependencies are
\* those of the render that made it, the function of this render otherwise.
\* (Variant: no dependency comparison, every render's function is used.)
UseCallbackDeps_fresh(slot, deps, fresh) == [deps |-> deps, id |-> fresh]

UseCallbackDeps(slot, deps, fresh) ==
  IF slot.id # 0 /\ slot.deps = deps THEN slot
  ELSE [deps |-> deps, id |-> fresh]

\* handleLog as the k-th render of DemoApp, with triggerRerender = trig,
\* sees it; the function a render evaluates is named by the render.
HandleLogOf(slot, trig, k) == UseCallbackDeps(slot, <<trig>>, k)

\* -------------------------------------------------------- PerformanceMonitor
\* arr.findIndex(l => l === log), log being an element of arr.
FindIndex(arr, log) ==
  CHOOSE i \in 1..Len(arr) :
    arr[i] = log /\ \A j \in 1..(i - 1) : arr[j] # log

\* arr.filter((log, index, arr) => arr.findIndex(l => l === log) === index),
\* from index i on.
RECURSIVE FilterFirst(_, _)
FilterFirst(arr, i) ==
  IF i > Len(arr) THEN <<>>
  ELSE (IF FindIndex(arr, arr[i]) = i THEN <<arr[i]>> ELSE <<>>)
         \o FilterFirst(arr, i + 1)

\* uniqueLogs, the lines PerformanceMonitor shows.
\* (Variant: the filter left out.)
UniqueLogs_all(arr) == SliceLast(arr, ShowLast)

UniqueLogs(arr) == SliceLast(FilterFirst(arr, 1), ShowLast)

\* ---------------------------------------------------- WithoutUseEffectEvent
\* The dependency list of its timer effect: [onLog].
\* (Variant: name listed as well.)
WithoutTimerDeps_name(onLog, name) == <<onLog, name>>

WithoutTimerDeps(onLog, name) == <<onLog>>

\* The texts it hands to onLog.
OCreatedMsg(n, t)   == <<"WITHOUT: Timer created #", n, " at ", t>>
OTickMsg(n, name)   == <<"WITHOUT: Timer tick #", n, " - Name: ", name,
                         " STALE (captured at timer creation #", n, ")">>
ODestroyedMsg(n, t) == <<"WITHOUT: Timer #", n, " destroyed at ", t>>
OChangedMsg(oldName, newName) ==
  <<"WITHOUT: Name changed from ", oldName, " to ", newName>>
OWaitMsg(oldName) ==
  <<"WITHOUT: WAIT for next timer tick (1.5s) - it will show OLD name ",
    oldName, " (stale closure!)">>
OFixMsg == <<"WITHOUT: To fix stale value, timer must recreate">>

\* The interval the timer effect of a render with prop onLog = f and state
\* name sets at clock reading t: its callback closes over both.
OInterval(f, name, t) == [live |-> TRUE, onLog |-> f, name |-> name, at |-> t]

\* The name a tick of the interval puts into its text.
\* (Variant: the name of the latest render.)
OTickName_latest(wo) == wo.name

OTickName(wo) == wo.timer.name

\* The component mounts with onLog = f at clock reading t: the mount effect
\* zeroes the counter and reports 0, the timer effect counts 1, reports it,
\* logs and sets the interval.  The result: the component, the texts handed
\* to onLog in order, and the count DemoApp was last told.
WithoutMount(f, t) ==
  [wo     |-> [phase |-> "live", name |-> "John", renders |-> 1,
               effects |-> 1, onLog |-> f, timer |-> OInterval(f, "John", t),
               timers |-> SetInterval({}, 1)],
   calls  |-> <<OCreatedMsg(1, t)>>,
   metric |-> 1]

\* One render of the mounted component with prop onLog = f and state name.
\* After the commit the timer effect runs again only if its dependencies
\* differ from those of the render before: the cleanup clears the interval
\* and logs through the onLog it closed over, then the effect counts,
\* reports, logs and sets a new interval.
WithoutRender(wo, f, name, t, metric) ==
  LET r == [wo EXCEPT !.renders = @ + 1, !.onLog = f, !.name = name]
  IN  IF WithoutTimerDeps(f, name) # WithoutTimerDeps(wo.onLog, wo.name)
        THEN [wo     |-> [r EXCEPT !.effects = @ + 1,
                                   !.timer = OInterval(f, name, t),
                                   !.timers = SetInterval(
                                       ClearInterval(@, wo.effects),
                                       wo.effects + 1)],
              calls  |-> <<ODestroyedMsg(wo.effects, t),
                           OCreatedMsg(wo.effects + 1, t)>>,
              metric |-> wo.effects + 1]
        ELSE [wo |-> r, calls |-> <<>>, metric |-> metric]

\* React.memo: the mounted component renders when the parent passes an
\* onLog that is not the one it has.
WithoutReceive(wo, f, t, metric) ==
  IF wo.phase = "live" /\ f # wo.onLog
    THEN WithoutRender(wo, f, wo.name, t, metric)
    ELSE [wo |-> wo, calls |-> <<>>, metric |-> metric]

\* Toggle Name: setName(newName), three calls of onLog, then the render the
\* state change causes.
WithoutToggle(wo, t, metric) ==
  LET oldName == wo.name
      newName == OtherName(wo.name)
      rr      == WithoutRender(wo, wo.onLog, newName, t, metric)
  IN  [rr EXCEPT !.calls = <<OChangedMsg(oldName, newName), OWaitMsg(oldName),
                             OFixMsg>> \o @]

\* The interval fires at clock reading t.
WithoutTick(wo, t, metric) ==
  [wo     |-> [wo EXCEPT !.timer.at = t],
   calls  |-> <<OTickMsg(wo.effects, OTickName(wo))>>,
   metric |-> metric]

\* ------------------------------------------------- DemoApp and its children
\* WithoutUseEffectEvent as an event that does not concern it leaves it.
Idle == [wo |-> without, calls |-> <<>>, metric |-> withoutRecreations]

\* The text of the call of onLog that WithUseEffectEvent made last.
Said(sink) == sink[3]

\* The render of DemoApp that follows an event.  The event left
\* triggerRerender = trig and the log buffer = buf; ev is what it made of
\* WithoutUseEffectEvent, with the texts handed to onLog during the event.
\* The render evaluates useCallback for handleLog and passes the result to
\* the children as onLog; the texts go through handleLog in order, those of
\* the event before those of the effects the render causes.  When those
\* effects updated the state of DemoApp it renders once more, with the same
\* triggerRerender and so the same handleLog.
DemoRender(trig, buf, ev) ==
  LET hl == HandleLogOf(handleLogMemo, trig, dRenders + 1)
      rc == WithoutReceive(ev.wo, hl.id, now', ev.metric)
  IN  /\ triggerRerender' = trig
      /\ handleLogMemo' = hl
      /\ without' = rc.wo
      /\ withoutRecreations' = rc.metric
      /\ logs' = HandleLogs(buf, now', ev.calls \o rc.calls)
      /\ dRenders' = dRenders + (IF Len(rc.calls) = 0 THEN 1 ELSE 2)

\* onLog as the coming render of DemoApp will pass it.
NextOnLog(trig) == HandleLogOf(handleLogMemo, trig, dRenders + 1).id

\* React.memo: WithUseEffectEvent renders when the parent passes an onLog
\* that is not the one it has.
WithReceive(f) ==
  IF phase[W] = "live" /\ f # wOnLog
    THEN WParentRerender(f)
    ELSE UNCHANGED <<utilVars, withVars>>

\* The unmount of the component at clock reading t: the cleanup of the
\* timer effect clears the interval and logs; nothing is reported.
WithoutUnmount(wo, t, metric) ==
  [wo     |-> [NoWithout EXCEPT
                 !.timers = ClearInterval(wo.timers, wo.effects)],
   calls  |-> <<ODestroyedMsg(wo.effects, t)>>,
   metric |-> metric]

\* An event other than a click on a demo-mode button.
NoSwitch == activeComponent' = activeComponent /\ switched' = FALSE

\* The earliest second an interval set or last fired at second t can fire
\* in, 1500 ms later, when the clock shows second c.
FiresAt(t, c) == IF c > t THEN c ELSE t + 1

\* DemoApp mounts showing both components.  WithoutUseEffectEvent is the
\* first child, so its effects run before those of WithUseEffectEvent; what
\* the effects hand to handleLog makes DemoApp render a second time.
DemoMount ==
  /\ dPhase = "none"
  /\ dPhase' = "live"
  /\ now' = now
  /\ WMount(HandleLogOf(NoSlot, 0, 1).id)
  /\ wTickAt' = now
  /\ triggerRerender' = 0
  /\ handleLogMemo' = HandleLogOf(NoSlot, 0, 1)
  /\ LET m == WithoutMount(HandleLogOf(NoSlot, 0, 1).id, now)
     IN  /\ without' = m.wo
         /\ withoutRecreations' = m.metric
         /\ logs' = HandleLogs(<<>>, now, m.calls \o <<Said(out')>>)
  /\ dRenders' = 2
  /\ UNCHANGED logCall
  /\ UNCHANGED quizVars
  /\ activeComponent' = "both"
  /\ switched' = FALSE

\* Force Parent Rerender: forceRerender increments triggerRerender.
ForceRerender ==
  /\ dPhase = "live"
  /\ dRenders + 2 <= MaxDemoRenders
  /\ now' = now
  /\ WithReceive(NextOnLog(triggerRerender + 1))
  /\ DemoRender(triggerRerender + 1, logs, Idle)
  /\ UNCHANGED <<dPhase, wTickAt, logCall>>
  /\ UNCHANGED quizVars
  /\ NoSwitch

\* Clear Logs.
ClearLogs ==
  /\ dPhase = "live"
  /\ dRenders < MaxDemoRenders
  /\ now' = now
  /\ WithReceive(NextOnLog(triggerRerender))
  /\ DemoRender(triggerRerender, <<>>, Idle)
  /\ UNCHANGED <<dPhase, wTickAt, logCall>>
  /\ UNCHANGED quizVars
  /\ NoSwitch

\* Toggle Name of WithUseEffectEvent.
ToggleWith ==
  /\ dPhase = "live"
  /\ dRenders < MaxDemoRenders
  /\ now' = now
  /\ WToggleName
  /\ DemoRender(triggerRerender, logs, [Idle EXCEPT !.calls = <<Said(out')>>])
  /\ UNCHANGED <<dPhase, wTickAt, logCall>>
  /\ UNCHANGED quizVars
  /\ NoSwitch

\* The interval of WithUseEffectEvent fires, 1500 ms after it was set or
\* fired last: the clock shows a later second than it did then.
TickWith ==
  /\ dPhase = "live"
  /\ dRenders < MaxDemoRenders
  /\ now' = FiresAt(wTickAt, now)
  /\ WTick
  /\ wTickAt' = now'
  /\ DemoRender(triggerRerender, logs, [Idle EXCEPT !.calls = <<Said(out')>>])
  /\ UNCHANGED <<dPhase, logCall>>
  /\ UNCHANGED quizVars
  /\ NoSwitch

\* Toggle Name of WithoutUseEffectEvent.
ToggleWithout ==
  /\ dPhase = "live"
  /\ without.phase = "live"
  /\ dRenders < MaxDemoRenders
  /\ now' = now
  /\ WithReceive(NextOnLog(triggerRerender))
  /\ DemoRender(triggerRerender, logs,
                WithoutToggle(without, now, withoutRecreations))
  /\ UNCHANGED <<dPhase, wTickAt, logCall>>
  /\ UNCHANGED quizVars
  /\ NoSwitch

\* The interval of WithoutUseEffectEvent fires.
TickWithout ==
  /\ dPhase = "live"
  /\ dRenders < MaxDemoRenders
  /\ without.timer.live
  /\ now' = FiresAt(without.timer.at, now)
  /\ WithReceive(NextOnLog(triggerRerender))
  /\ DemoRender(triggerRerender, logs,
                WithoutTick(without, now', withoutRecreations))
  /\ UNCHANGED <<dPhase, wTickAt, logCall>>
  /\ UNCHANGED quizVars
  /\ NoSwitch

\* The route changes and DemoApp unmounts with its children.  The cleanups
\* of both timer effects run; what they hand to handleLog updates the state
\* of a component that is gone.  Nothing of DemoApp outlives the unmount, so
\* the seconds are counted from here on.
DemoUnmount ==
  /\ dPhase = "live"
  /\ dPhase' = "none"
  /\ IF phase[W] = "live" THEN WUnmount ELSE UNCHANGED <<utilVars, withVars>>
  /\ wTickAt' = 0
  /\ dRenders' = 0
  /\ triggerRerender' = 0
  /\ handleLogMemo' = NoSlot
  /\ logs' = <<>>
  /\ withoutRecreations' = 0
  /\ without' = IF without.phase = "live"
                  THEN WithoutUnmount(without, now, 0).wo
                  ELSE without
  /\ now' = 0
  /\ UNCHANGED logCall
  /\ UNCHANGED quizVars
  /\ activeComponent' = "both"
  /\ switched' = FALSE

NextDemo ==
  \/ DemoMount
  \/ ForceRerender
  \/ ClearLogs
  \/ ToggleWith
  \/ TickWith
  \/ ToggleWithout
  \/ TickWithout
  \/ DemoUnmount

SpecDemo == Init /\ [][NextDemo]_vars

\* --------------------------------------------------------- the demo modes
\* ComponentView, and which children DemoApp renders in a mode.
ComponentViews == {"both", "without", "with"}
ShowsWithout(component) == component \in {"both", "without"}
ShowsWith(component) == component \in {"both", "with"}

\* What a click on a demo-mode button makes of WithoutUseEffectEvent at
\* clock reading t, onLog = f being what the render passes: it is unmounted,
\* mounted, or left alone (its props are the same, so it does not render);
\* metric is the withoutRecreations the click set.
WithoutSwitch(wo, component, f, t, metric) ==
  IF wo.phase = "live" /\ ~ShowsWithout(component)
    THEN WithoutUnmount(wo, t, metric)
  ELSE IF wo.phase # "live" /\ ShowsWithout(component)
    THEN WithoutMount(f, t)
  ELSE [wo |-> wo, calls |-> <<>>, metric |-> metric]

\* A click on a demo-mode button: toggleComponent sets activeComponent,
\* zeroes both metrics and empties the log; DemoApp renders with the same
\* handleLog.  At the commit the cleanups of a child that left run first,
\* then the effects of a child that came; what they report and hand to
\* handleLog makes DemoApp render once more.
ToggleComponent(component) ==
  /\ dPhase = "live"
  /\ dRenders + 2 <= MaxDemoRenders
  /\ now' = now
  /\ LET hl    == HandleLogOf(handleLogMemo, triggerRerender, dRenders + 1)
         hasW  == phase[W] = "live"
         leftW == hasW /\ ~ShowsWith(component)
         cameW == ~hasW /\ ShowsWith(component)
         o     == WithoutSwitch(without, component, hl.id, now, 0)
         leftO == without.phase = "live" /\ ~ShowsWithout(component)
     IN  /\ IF leftW THEN WCleanup /\ wReported' = 0
            ELSE IF cameW THEN WMount(hl.id)
            ELSE /\ UNCHANGED <<utilVars, wName, wOnLog, wEffects, wTimers>>
                 /\ wReported' = 0
         /\ wTickAt' = IF leftW THEN 0 ELSE IF cameW THEN now ELSE wTickAt
         /\ handleLogMemo' = hl
         /\ without' = o.wo
         /\ withoutRecreations' = o.metric
         /\ logs' = HandleLogs(<<>>, now,
                      (IF leftO THEN o.calls ELSE <<>>)
                      \o (IF leftW THEN <<Said(out')>> ELSE <<>>)
                      \o (IF leftO THEN <<>> ELSE o.calls)
                      \o (IF cameW THEN <<Said(out')>> ELSE <<>>))
         /\ dRenders' = dRenders +
              (IF leftW \/ cameW \/ Len(o.calls) > 0 THEN 2 ELSE 1)
  /\ activeComponent' = component
  /\ switched' = TRUE
  /\ UNCHANGED <<dPhase, triggerRerender, logCall>>
  /\ UNCHANGED quizVars

NextMode ==
  \/ DemoMount
  \/ ForceRerender
  \/ ClearLogs
  \/ ToggleWith
  \/ TickWith
  \/ ToggleWithout
  \/ TickWithout
  \/ \E component \in ComponentViews : ToggleComponent(component)
  \/ DemoUnmount

SpecMode == Init /\ [][NextMode]_vars

\* ------------------------------------------------------------ properties
\* The cell of a mounted instance, and the steps the properties speak of.
Cell(i) == refs[hooks[i].ref]

Constructs(i) == renders'[i] = renders[i] + 1
Reconstructs(i) == phase[i] = "live" /\ Constructs(i)
Invokes == called' # called /\ called'.handle # NoHandle

\* What calling handle h with arguments a yields in a given heap.
Yields(heap, cl, h, a) == HandleRun(heap, cl[h], a).outcome

\* C1 - Handle identity stability: while an instance stays mounted, every
\* call of the hook returns the handle the first call returned; the handle
\* the instance has is the closure of its first render.
C1_HandleIdentityStable ==
  [][\A i \in Inst :
       /\ (returned[i] # NoHandle /\ returned'[i] # NoHandle)
            => returned'[i] = returned[i]
       /\ Constructs(i) => returned'[i] = <<i, 1>>]_vars

C1_Witness ==
  \E i \in Inst : /\ phase[i] = "live" /\ renders[i] >= 2
                  /\ swap[i] = "swapped" /\ returned[i] = <<i, 1>>

\* C2 - Freshness: every invocation of a handle, also of one obtained
\* before later reconstructions, runs the function that the latest call of
\* the hook by the handle's instance supplied.
C2_InvokeRunsLatest ==
  [][Invokes => called'.fn = supplied[called'.handle[1]]]_vars

C2_Witness ==
  \E i \in Inst : /\ called.handle = timer[i] /\ timer[i] = <<i, 1>>
                  /\ swap[i] = "swapped" /\ renders[i] >= 2
                  /\ called.fn = <<"retB">> /\ called.outcome = <<"return", Str("B")>>

\* C3 - Ordering: once a render has called the hook, the cell holds the
\* function that render supplied; no state has a finished reconstruction and
\* a cell that still holds the previous function, so whatever a pending
\* interval calls afterwards is the new function.
C3_CellWrittenInRender ==
  /\ \A i \in Inst : phase[i] = "live" => Cell(i).current = supplied[i]
  /\ \A i \in Inst : timer[i] # NoHandle =>
        refs[closures[timer[i]]].current = supplied[i]

C3_Witness ==
  \E i \in Inst : /\ phase[i] = "live" /\ swap[i] = "swapped"
                  /\ timer[i] # NoHandle /\ called = NoCall
                  /\ Cell(i).current = supplied[i]

\* C4 - Passthrough: the function that runs receives exactly the arguments
\* the handle was called with, same order and same count, and the handle
\* returns exactly what the function returns for them.
C4_ArgsAndResultPassThrough ==
  called.handle # NoHandle =>
    /\ called.passed = called.args
    /\ Apply(called.fn, called.args)[1] = "return"
         => called.outcome = Apply(called.fn, called.args)
    /\ (called.fn = <<"sub">> /\ called.args = <<Num(2), Num(3)>>)
         => called.outcome = <<"return", Num(0 - 1)>>
    /\ (called.fn = <<"sub">> /\ called.args = <<Num(3), Num(2)>>)
         => called.outcome = <<"return", Num(1)>>

C4_Witness ==
  /\ called.fn = <<"sub">> /\ called.args = <<Num(3), Num(2)>>
  /\ called.outcome = <<"return", Num(1)>>

\* C5 - Error propagation: an invocation raises exactly when the stored
\* function raises, and then raises the same error; the function that
\* raised is one a caller supplied; a failed invocation leaves cell, hook
\* state and handle as they were.
C5_ErrorPropagatesUnchanged ==
  [][Invokes =>
       /\ called'.fn \in Fns
       /\ (called'.outcome[1] = "throw")
            <=> (Apply(called'.fn, called'.args)[1] = "throw")
       /\ called'.outcome[1] = "throw" =>
            /\ called'.outcome = Apply(called'.fn, called'.args)
            /\ called'.fn = <<"throw">> => called'.outcome[2] = Arg(called'.args, 1)
            /\ refs' = refs /\ hooks' = hooks /\ closures' = closures
            /\ returned' = returned]_vars

C5_Witness ==
  /\ called.fn = <<"throw">> /\ called.args = <<Num(3), Num(2)>>
  /\ called.outcome = <<"throw", Num(3)>>

\* C6 - Cell non-emptiness: from the state in which the first call of the
\* hook returns, the cell of a mounted instance, and the cell behind every
\* handle that can still be called, holds a function.
C6_CellNeverEmpty ==
  /\ \A i \in Inst : phase[i] = "live" =>
        /\ hooks[i].ref \in DOMAIN refs
        /\ Cell(i).current \in Fns
  /\ \A h \in Callable \ {NoHandle} :
        /\ h \in DOMAIN closures
        /\ closures[h] \in DOMAIN refs
        /\ refs[closures[h]].current \in Fns

C6_Witness ==
  \E i \in Inst : /\ phase[i] = "live" /\ renders[i] = 1
                  /\ returned[i] # NoHandle /\ Cell(i).current \in Fns

\* C7 - Validity during teardown: the call of onLogEvent made by the effect
\* cleanup while WithUseEffectEvent unmounts, and every call made by a tick
\* of its interval, runs the function the component's last render supplied,
\* with that render's onLog and name, and never finds the cell empty.
C7_Teardown ==
  (phase[W] = "live" /\ phase'[W] = "disposed") =>
     /\ called'.handle = timer[W]
     /\ called'.fn = supplied[W]
     /\ called'.fn = LogEventFn(wOnLog, wName)
     /\ called'.outcome = <<"return", Undefined>>
     /\ out' = OnLog(wOnLog, <<"WITH: ", DestroyedMsg(wEffects),
                               " - Name: ", wName>>)

C7_Tick ==
  (Invokes /\ phase[W] = "live" /\ renders'[W] = renders[W]) =>
     /\ called'.fn = supplied[W]
     /\ called'.fn = LogEventFn(wOnLog, wName)
     /\ called'.outcome = <<"return", Undefined>>

C7_ValidDuringTeardown == [][C7_Teardown /\ C7_Tick]_vars

C7_Witness ==
  /\ phase[W] = "disposed"
  /\ called.fn = LogEventFn(2, "Jane")
  /\ called.args = <<DestroyedMsg(1)>>
  /\ out = OnLog(2, <<"WITH: ", DestroyedMsg(1), " - Name: ", "Jane">>)

\* C8 - Multi-instance isolation: two mounted instances have different
\* handles and different cells, and a call of the hook by one instance
\* leaves the other's cell, and what the other's handle yields for every
\* argument list, as they were.
C8_Distinct ==
  \A i, j \in Inst : (i # j /\ phase[i] = "live" /\ phase[j] = "live") =>
     /\ hooks[i].ref # hooks[j].ref
     /\ hooks[i].cb # hooks[j].cb
     /\ returned[i] # returned[j]

C8_OtherUntouched ==
  \A i, j \in Inst : (i # j /\ Constructs(i) /\ phase[j] = "live") =>
     /\ hooks'[j] = hooks[j]
     /\ refs'[hooks'[j].ref] = refs[hooks[j].ref]
     /\ \A a \in ArgLists :
          Yields(refs', closures', returned'[j], a)
            = Yields(refs, closures, returned[j], a)

C8_InstancesIsolated == [](C8_Distinct) /\ [][C8_OtherUntouched]_vars

C8_Witness ==
  /\ phase[1] = "live" /\ phase[2] = "live"
  /\ swap[1] = "swapped" /\ supplied[1] # supplied[2]
  /\ Cell(2).current = supplied[2]

\* C9 - No-op reconstruction: a render that supplies the function the cell
\* already holds returns the same handle, leaves what the handle yields for
\* every argument list as it was, and still assigns the cell.
C9_SameFnReconstruction ==
  [][\A i \in Inst :
       (Reconstructs(i) /\ supplied'[i] = supplied[i]) =>
          /\ returned'[i] = returned[i]
          /\ \A a \in ArgLists :
               Yields(refs', closures', returned'[i], a)
                 = Yields(refs, closures, returned[i], a)
          /\ Cell(i)'.current = Cell(i).current
          /\ Cell(i)'.sets = Cell(i).sets + 1]_vars

C9_Witness ==
  \E i \in Inst : /\ phase[i] = "live" /\ swap[i] = "same"
                  /\ Cell(i).sets = 2 /\ returned[i] = <<i, 1>>

\* C10 - Frame: a reconstruction changes nothing but the calling instance's
\* cell; a first construction adds that instance's handle and cell and
\* touches nobody else's; an invocation changes neither heap, hook state nor
\* handles; none of them starts or stops an interval, and the variable
\* outside is written only by the stored function, as that function writes it.
C10_ConstructFrame ==
  \A i \in Inst : Constructs(i) =>
     /\ timer' = timer /\ out' = out
     /\ \A j \in Inst \ {i} : hooks'[j] = hooks[j] /\ returned'[j] = returned[j]
     /\ \A r \in DOMAIN refs : r # hooks'[i].ref =>
           r \in DOMAIN refs' /\ refs'[r] = refs[r]
     /\ phase[i] = "live" =>
           /\ hooks' = hooks /\ returned' = returned
           /\ DOMAIN refs' = DOMAIN refs /\ closures' = closures

C10_InvokeFrame ==
  Invokes =>
     /\ refs' = refs /\ closures' = closures /\ hooks' = hooks
     /\ returned' = returned /\ timer' = timer
     /\ out' = Effect(supplied[called'.handle[1]], called'.args, out)

C10_UtilityFrame == [][C10_ConstructFrame /\ C10_InvokeFrame]_vars

C10_Witness ==
  \E i \in Inst : /\ called.handle = <<i, 1>> /\ called.fn = <<"set">>
                  /\ swap[i] = "swapped" /\ called.args = <<Num(2), Num(3)>>
                  /\ out = Num(2) /\ Cell(i).current = <<"set">>

\* ------------------------------------------------- DemoApp and its callers
\* DemoApp with whoever holds handleLog as its environment: callers hand it
\* the line of a timer, which comes second after second, or the line of a
\* click.
TimerLine == <<"WITH: ", TickMsg(1), " - Name: ", "John">>
ClickLine == OFixMsg
LogLines == <<TimerLine, ClickLine>>

\* The lines of a click the buffer holds.
Clicks(buf) == Cardinality({i \in 1..Len(buf) : buf[i][4] = ClickLine})

\* DemoApp mounts.
LogMount ==
  /\ dPhase = "none"
  /\ dPhase' = "live"
  /\ dRenders' = 1
  /\ UNCHANGED <<utilVars, withVars, wTickAt, now, triggerRerender,
                 handleLogMemo, logs, withoutRecreations, logCall, without>>
  /\ UNCHANGED quizVars
  /\ UNCHANGED modeVars

\* A caller hands message k to handleLog.
LogCall(k) ==
  /\ dPhase = "live"
  /\ k = 2 => Clicks(logs) < MaxClicks
  /\ logs' = HandleLog(logs, now, LogLines[k])
  /\ logCall' = [text |-> LogLines[k], at |-> now,
                 kept |-> HandleLog(logs, now, LogLines[k]) # logs]
  /\ UNCHANGED <<utilVars, withVars, wTickAt, now, dPhase, dRenders,
                 triggerRerender, handleLogMemo, withoutRecreations, without>>
  /\ UNCHANGED quizVars
  /\ UNCHANGED modeVars

\* A second passes; the timer has logged in the one that ends.
ClockTick ==
  /\ dPhase = "live"
  /\ now < MaxClock
  /\ Len(logs) > 0 /\ logs[Len(logs)][2] = now
  /\ now' = now + 1
  /\ UNCHANGED <<utilVars, withVars, wTickAt, dPhase, dRenders,
                 triggerRerender, handleLogMemo, logs, withoutRecreations,
                 logCall, without>>
  /\ UNCHANGED quizVars
  /\ UNCHANGED modeVars

NextLog ==
  \/ LogMount
  \/ \E k \in 1..Len(LogLines) : LogCall(k)
  \/ ClockTick

SpecLog == Init /\ [][NextLog]_vars

\* ---------------------------------------------------------------------
\* ThinkTank (src/src/components/Quiz/ThinkTank.tsx) and the item
\* 'thinkTankTeamData' of localStorage.
\* ---------------------------------------------------------------------

demoRest == <<wTickAt, dPhase, dRenders, triggerRerender, handleLogMemo,
              logs, withoutRecreations, logCall, without>>

\* The roster. Two names stand for the imported list; OlderRoster is the
\* list of an earlier version of the page, before "Ben" joined.
TEAM_MEMBERS == <<"Ana", "Ben">>
OlderRoster == <<"Ana">>

\* The first two questions of quizQuestions, by index, and the index of the
\* right option of each.
Questions == {0, 1}
CorrectAnswer == [q \in Questions |-> 1]
Options == {0, 1}

Null == <<"null", 0>>
LocaleString(t) == <<"str", "time", t>>

\* a += 1
PlusOne(a) ==
  IF a[1] = "num" THEN Num(a[2] + 1)
  ELSE IF a[1] = "null" THEN Num(1)
  ELSE NaN

\* JSON.stringify and JSON.parse of one value: a number is written in
\* decimal, NaN as null, a string between quotes; null is read as null.
ToJson(v) ==
  IF v[1] = "num" THEN <<"jnum", v[2]>>
  ELSE IF v[1] = "str" THEN [k \in 1..Len(v) |-> IF k = 1 THEN "jstr" ELSE v[k]]
  ELSE <<"jnull", 0>>

FromJson(j) ==
  IF j[1] = "jnum" THEN Num(j[2])
  ELSE IF j[1] = "jstr" THEN [k \in 1..Len(j) |-> IF k = 1 THEN "str" ELSE j[k]]
  ELSE Null

\* JSON.stringify(data) and JSON.parse(text) of a map of team members.
Stringify(data) ==
  <<"json", [n \in DOMAIN data |-> [f \in DOMAIN data[n] |-> ToJson(data[n][f])]]>>

Parse(text) ==
  [n \in DOMAIN text[2] |-> [f \in DOMAIN text[2][n] |-> FromJson(text[2][n][f])]]

\* The record of a member nothing was awarded to.
\* (Variant: lastActivity left empty.)
NewMember_blank(name) ==
  [name |-> Str(name), totalBonus |-> Num(0), questionsAnswered |-> Num(0),
   correctAnswers |-> Num(0), lastActivity |-> Str("")]

NewMember(name) ==
  [name |-> Str(name), totalBonus |-> Num(0), questionsAnswered |-> Num(0),
   correctAnswers |-> Num(0), lastActivity |-> Str("Never")]

InitialTeam(roster) ==
  [n \in {roster[k] : k \in 1..Len(roster)} |-> NewMember(n)]

\* The initializer of teamData.
LoadTeam_fresh(saved, roster) == InitialTeam(roster)

LoadTeam(saved, roster) ==
  IF saved # NoItem THEN Parse(saved) ELSE InitialTeam(roster)

\* awardedForQuestion[q] is truthy.
\* (Variant: the record of awards is not consulted.)
Awarded_never(awarded, q) == FALSE

Awarded(awarded, q) == q \in DOMAIN awarded /\ awarded[q] # ""

\* handleAwardPoint: what it leaves in teamData and awardedForQuestion,
\* whether it writes the snapshot, and how it ended.
HandleAwardPoint_markFirst(q, who, awarded, data, t) ==
  LET marked == (q :> who) @@ awarded IN
  IF Awarded(awarded, q)
  THEN [outcome |-> "already", data |-> data, awarded |-> awarded, saves |-> FALSE]
  ELSE IF who = ""
  THEN [outcome |-> "alert", data |-> data, awarded |-> marked, saves |-> FALSE]
  ELSE IF who \notin DOMAIN data
  THEN [outcome |-> "nokey", data |-> data, awarded |-> marked, saves |-> FALSE]
  ELSE [outcome |-> "awarded",
        data |-> [data EXCEPT ![who] =
                    [@ EXCEPT !.questionsAnswered = PlusOne(@),
                              !.correctAnswers = PlusOne(@),
                              !.totalBonus = PlusOne(@),
                              !.lastActivity = LocaleString(t)]],
        awarded |-> marked, saves |-> TRUE]

HandleAwardPoint(q, who, awarded, data, t) ==
  IF Awarded(awarded, q)
  THEN [outcome |-> "already", data |-> data, awarded |-> awarded, saves |-> FALSE]
  ELSE IF who = ""
  THEN [outcome |-> "alert", data |-> data, awarded |-> awarded, saves |-> FALSE]
  ELSE IF who \notin DOMAIN data
  THEN [outcome |-> "nokey", data |-> data, awarded |-> awarded, saves |-> FALSE]
  ELSE [outcome |-> "awarded",
        data |-> [data EXCEPT ![who] =
                    [@ EXCEPT !.questionsAnswered = PlusOne(@),
                              !.correctAnswers = PlusOne(@),
                              !.totalBonus = PlusOne(@),
                              !.lastActivity = LocaleString(t)]],
        awarded |-> (q :> who) @@ awarded, saves |-> TRUE]

\* resetAllTeamData: teamData and the stored item after it, given the
\* answer to window.confirm.
ResetAllTeamData_noSave(confirmed, data, item) ==
  IF confirmed
  THEN [data |-> InitialTeam(TEAM_MEMBERS), item |-> item]
  ELSE [data |-> data, item |-> item]

ResetAllTeamData(confirmed, data, item) ==
  IF confirmed
  THEN [data |-> InitialTeam(TEAM_MEMBERS),
        item |-> Stringify(InitialTeam(TEAM_MEMBERS))]
  ELSE [data |-> data, item |-> item]

\* Which of the three views the component renders.
View ==
  IF showLeaderboard THEN "leaderboard"
  ELSE IF showResults THEN "results"
  ELSE "question"

\* The award box is on the page: the explanation is shown and the selected
\* answer is the right one.
\* (Variant: shown with the explanation, whatever the answer.)
AwardBox_anyAnswer ==
  /\ qPhase = "live"
  /\ View = "question"
  /\ showExplanation

AwardBox ==
  /\ qPhase = "live"
  /\ View = "question"
  /\ showExplanation
  /\ currentQuestion \in DOMAIN selectedAnswers
  /\ selectedAnswers[currentQuestion] = CorrectAnswer[currentQuestion]

QuizStays == UNCHANGED <<utilVars, withVars, demoRest, modeVars>>

\* The route /quiz is entered: the component mounts, its state is initial
\* and teamData comes from its initializer.
QMount ==
  /\ qPhase = "none"
  /\ qPhase' = "live"
  /\ teamData' = LoadTeam(storage, TEAM_MEMBERS)
  /\ qLast' = "mount"
  /\ UNCHANGED <<currentQuestion, selectedAnswers, showResults, showExplanation,
                 showLeaderboard, awardMember, awardedForQuestion, storage, now>>
  /\ QuizStays

\* The route is left: the component's state is gone. teamData keeps what
\* the component held, to be compared with what the next mount loads.
QUnmount ==
  /\ qPhase = "live"
  /\ qPhase' = "none"
  /\ currentQuestion' = 0
  /\ selectedAnswers' = <<>>
  /\ showResults' = FALSE
  /\ showExplanation' = FALSE
  /\ showLeaderboard' = FALSE
  /\ awardMember' = ""
  /\ awardedForQuestion' = <<>>
  /\ qLast' = "none"
  /\ UNCHANGED <<teamData, storage, now>>
  /\ QuizStays

\* A click on an option.
\* (Variant: the options stay enabled while the explanation is shown.)
QAnswer_unlocked(answerIndex) ==
  /\ qPhase = "live"
  /\ View = "question"
  /\ selectedAnswers' = (currentQuestion :> answerIndex) @@ selectedAnswers
  /\ showExplanation' = TRUE
  /\ qLast' = "none"
  /\ UNCHANGED <<qPhase, currentQuestion, showResults, showLeaderboard,
                 awardMember, awardedForQuestion, teamData, storage, now>>
  /\ QuizStays

QAnswer(answerIndex) ==
  /\ qPhase = "live"
  /\ View = "question"
  /\ ~showExplanation
  /\ selectedAnswers' = (currentQuestion :> answerIndex) @@ selectedAnswers
  /\ showExplanation' = TRUE
  /\ qLast' = "none"
  /\ UNCHANGED <<qPhase, currentQuestion, showResults, showLeaderboard,
                 awardMember, awardedForQuestion, teamData, storage, now>>
  /\ QuizStays

\* The select of the award box changes.
QChoose(who) ==
  /\ AwardBox
  /\ awardMember' = who
  /\ qLast' = "none"
  /\ UNCHANGED <<qPhase, currentQuestion, selectedAnswers, showResults,
                 showExplanation, showLeaderboard, awardedForQuestion,
                 teamData, storage, now>>
  /\ QuizStays

\* A click on Give +1 Point.
QAward ==
  /\ AwardBox
  /\ ~Awarded(awardedForQuestion, currentQuestion)
  /\ awardMember \in DOMAIN teamData =>
       teamData[awardMember].totalBonus[2] < MaxBonus
  /\ LET r == HandleAwardPoint(currentQuestion, awardMember,
                               awardedForQuestion, teamData, now) IN
       /\ teamData' = r.data
       /\ awardedForQuestion' = r.awarded
       /\ storage' = IF r.saves THEN Stringify(r.data) ELSE storage
       /\ qLast' = r.outcome
  /\ UNCHANGED <<qPhase, currentQuestion, selectedAnswers, showResults,
                 showExplanation, showLeaderboard, awardMember, now>>
  /\ QuizStays

\* A click on Next Question / See Results.
\* (Variant: the position is advanced on the last question as well.)
QNext_always ==
  /\ qPhase = "live"
  /\ View = "question"
  /\ showExplanation
  /\ showExplanation' = FALSE
  /\ currentQuestion' = currentQuestion + 1
  /\ showResults' = (currentQuestion >= Cardinality(Questions) - 1)
  /\ qLast' = "none"
  /\ UNCHANGED <<qPhase, selectedAnswers, showLeaderboard, awardMember,
                 awardedForQuestion, teamData, storage, now>>
  /\ QuizStays

QNext ==
  /\ qPhase = "live"
  /\ View = "question"
  /\ showExplanation
  /\ showExplanation' = FALSE
  /\ IF currentQuestion < Cardinality(Questions) - 1
     THEN currentQuestion' = currentQuestion + 1 /\ UNCHANGED showResults
     ELSE showResults' = TRUE /\ UNCHANGED currentQuestion
  /\ qLast' = "none"
  /\ UNCHANGED <<qPhase, selectedAnswers, showLeaderboard, awardMember,
                 awardedForQuestion, teamData, storage, now>>
  /\ QuizStays

\* A click on Retake Quiz.
QResetQuiz ==
  /\ qPhase = "live"
  /\ View = "results"
  /\ currentQuestion' = 0
  /\ selectedAnswers' = <<>>
  /\ showResults' = FALSE
  /\ showExplanation' = FALSE
  /\ awardMember' = ""
  /\ awardedForQuestion' = <<>>
  /\ qLast' = "none"
  /\ UNCHANGED <<qPhase, showLeaderboard, teamData, storage, now>>
  /\ QuizStays

\* The leaderboard is opened from the question or the results view, and
\* closed by Back to Quiz.
QLeaderboard ==
  /\ qPhase = "live"
  /\ showLeaderboard' = ~showLeaderboard
  /\ qLast' = "none"
  /\ UNCHANGED <<qPhase, currentQuestion, selectedAnswers, showResults,
                 showExplanation, awardMember, awardedForQuestion, teamData,
                 storage, now>>
  /\ QuizStays

\* A click on Reset All Data, and the answer to the confirmation.
QResetAll(confirmed) ==
  /\ qPhase = "live"
  /\ View = "leaderboard"
  /\ LET r == ResetAllTeamData(confirmed, teamData, storage) IN
       /\ teamData' = r.data
       /\ storage' = r.item
  /\ qLast' = "none"
  /\ UNCHANGED <<qPhase, currentQuestion, selectedAnswers, showResults,
                 showExplanation, showLeaderboard, awardMember,
                 awardedForQuestion, now>>
  /\ QuizStays

\* A second passes while the quiz is on the page.
QClock ==
  /\ qPhase = "live"
  /\ now < MaxQuizClock
  /\ now' = now + 1
  /\ qLast' = "none"
  /\ UNCHANGED <<qPhase, currentQuestion, selectedAnswers, showResults,
                 showExplanation, showLeaderboard, awardMember,
                 awardedForQuestion, teamData, storage>>
  /\ QuizStays

\* Before the page is first opened, the browser may hold the snapshot an
\* earlier version of the page wrote, with the roster of the time.
QOlderSnapshot ==
  /\ qPhase = "none"
  /\ teamData = NoTeam
  /\ storage = NoItem
  /\ storage' = Stringify(InitialTeam(OlderRoster))
  /\ UNCHANGED <<qPhase, currentQuestion, selectedAnswers, showResults,
                 showExplanation, showLeaderboard, awardMember,
                 awardedForQuestion, teamData, qLast, now>>
  /\ QuizStays

NextQuiz ==
  \/ QMount
  \/ QUnmount
  \/ \E answerIndex \in Options : QAnswer(answerIndex)
  \/ \E who \in {""} \cup {TEAM_MEMBERS[k] : k \in 1..Len(TEAM_MEMBERS)} : QChoose(who)
  \/ QAward
  \/ QNext
  \/ QResetQuiz
  \/ QLeaderboard
  \/ \E confirmed \in BOOLEAN : QResetAll(confirmed)
  \/ QClock
  \/ QOlderSnapshot

SpecQuiz == Init /\ [][NextQuiz]_vars

\* ------------------------------------------- properties of the demo page
\* The steps of one mount of DemoApp, the last entry of the log buffer, and
\* the steps in which an interval fires.
DemoStays == dPhase = "live" /\ dPhase' = "live"
LastLog(buf) == buf[Len(buf)]
ForceStep == DemoStays /\ triggerRerender' # triggerRerender
WithTicks == DemoStays /\ wTickAt' # wTickAt
WithoutTicks ==
  /\ DemoStays
  /\ without'.effects = without.effects
  /\ without'.timer.at # without.timer.at

\* C11 - The WITH timer is never recreated: while WithUseEffectEvent is
\* mounted its effect counter and the count reported to DemoApp are 1 and
\* its interval is the one set at mount, whatever is clicked or logged.
C11_Once ==
  phase[W] = "live" =>
     /\ wEffects = 1 /\ wReported = 1
     /\ timer[W] = <<W, 1>>

C11_Kept ==
  (phase[W] = "live" /\ phase'[W] = "live") =>
     /\ wEffects' = wEffects /\ wReported' = wReported
     /\ timer'[W] = timer[W]

C11_WithTimerCreatedOnce == [](C11_Once) /\ [][C11_Kept]_vars

C11_Witness ==
  /\ dPhase = "live" /\ phase[W] = "live"
  /\ triggerRerender >= 1 /\ wName = "Jane" /\ renders[W] >= 3
  /\ called.args = <<TickMsg(1)>>
  /\ wEffects = 1 /\ Len(logs) >= 4

\* C12 - The WITHOUT timer is recreated by Force Parent Rerender and by
\* nothing else: a force click gives onLog a new identity and makes the
\* effect clean up and run again once, the counter and the reported count
\* growing by 1 and the buffer ending in the destroyed and created lines of
\* that one recreation; every other step of a mount leaves onLog, the counter
\* and the interval as they were.
C12_Force ==
  ForceStep =>
     /\ handleLogMemo'.id # handleLogMemo.id
     /\ without'.onLog = handleLogMemo'.id
     /\ without'.effects = without.effects + 1
     /\ withoutRecreations' = without.effects + 1
     /\ without'.timer.live /\ without'.timer.onLog = handleLogMemo'.id
     /\ Len(logs') >= 2
     /\ LastLog(logs') = Stamp(now', OCreatedMsg(without.effects + 1, now'))
     /\ logs'[Len(logs') - 1] = Stamp(now', ODestroyedMsg(without.effects, now'))

C12_Else ==
  (DemoStays /\ ~ForceStep) =>
     /\ handleLogMemo'.id = handleLogMemo.id
     /\ without'.onLog = without.onLog
     /\ without'.effects = without.effects
     /\ withoutRecreations' = withoutRecreations
     /\ without'.timer.live
     /\ without'.timer.onLog = without.timer.onLog

C13_FreshNameInTick ==
  [][WithTicks =>
       /\ called'.handle = <<W, 1>>
       /\ out' = OnLog(wOnLog, <<"WITH: ", TickMsg(1), " - Name: ", wName>>)
       /\ LastLog(logs') = Stamp(now', <<"WITH: ", TickMsg(1),
                                          " - Name: ", wName>>)
       /\ wEffects' = 1 /\ timer'[W] = timer[W]]_vars

C13_Witness ==
  /\ dPhase = "live" /\ wName = "Jane" /\ renders[W] >= 2
  /\ called.args = <<TickMsg(1)>>
  /\ called.fn = LogEventFn(wOnLog, "Jane")
  /\ Len(logs) > 0
  /\ LastLog(logs)[4] = <<"WITH: ", TickMsg(1), " - Name: ", "Jane">>

\* C14 - Stale value in the WITHOUT timer: an interval keeps the name of the
\* render whose effect set it; a step that does not recreate the timer,
\* Toggle Name included, leaves that name as it was, and every tick logs it.
C14_Captured ==
  DemoStays =>
     IF without'.effects # without.effects
       THEN without'.timer.name = without'.name
       ELSE without'.timer.name = without.timer.name

C14_Tick ==
  WithoutTicks =>
     LastLog(logs') = Stamp(now', OTickMsg(without.effects,
                                          without.timer.name))

C14_StaleNameInTick == [][C14_Captured /\ C14_Tick]_vars

C14_Witness ==
  /\ dPhase = "live" /\ without.name = "Jane" /\ without.effects = 2
  /\ Len(logs) > 0
  /\ LastLog(logs)[4] = OTickMsg(2, "Jane")
  /\ \E i, j \in 1..Len(logs) :
        /\ i < j
        /\ logs[i][4] = OChangedMsg("John", "Jane")
        /\ logs[j][4] = OTickMsg(1, "John")

\* ------------------------------------------- properties of the log buffer
\* A step in which a caller outside the model called handleLog, and the
\* line that call made.
LogCalled == logCall' # logCall
CalledLine == Stamp(logCall'.at, logCall'.text)

\* C15 - Log cap: the retained buffer holds at most 20 entries.
C15_LogCap == Len(logs) <= LogKeep

\* C16 - Log deduplication rule: handleLog drops a message exactly when its
\* timestamped text equals the last entry of the buffer; otherwise, also
\* when an older entry equals it, the line becomes the last entry.  The
\* buffer never holds two equal adjacent entries.
C16_NoEqualNeighbours ==
  \A i \in 1..(Len(logs) - 1) : logs[i] # logs[i + 1]

C16_Rule ==
  LogCalled =>
     IF Len(logs) > 0 /\ LastLog(logs) = CalledLine
       THEN logs' = logs /\ ~logCall'.kept
       ELSE /\ logCall'.kept
            /\ Len(logs') > 0 /\ LastLog(logs') = CalledLine
            /\ Len(logs') >= Len(logs)
            /\ \A i \in 1..(Len(logs') - 1) :
                  logs'[i] = logs[i + Len(logs) + 1 - Len(logs')]

C16_DropsOnlyRepeatedLast == [](C16_NoEqualNeighbours) /\ [][C16_Rule]_vars

C16_Witness ==
  /\ logCall.kept /\ Len(logs) >= 3
  /\ LastLog(logs) = Stamp(logCall.at, logCall.text)
  /\ logs[Len(logs) - 2] = LastLog(logs)

\* C17, as stated - the lines shown are the most recent 15 entries of the
\* retained buffer, removed from display by the cap only.
C17_ShownAreMostRecent == UniqueLogs(logs) = SliceLast(logs, ShowLast)

\* C17, amended - PerformanceMonitor shows at most 15 lines: of the entries
\* of the retained buffer that equal no earlier entry, the last 15, in the
\* order of the buffer; when no entry of the buffer repeats an earlier one,
\* these are the most recent 15 entries.
Firsts(buf) == {i \in 1..Len(buf) : \A j \in 1..(i - 1) : buf[j] # buf[i]}

C17_ShownAreLastFirstOccurrences ==
  LET u     == UniqueLogs(logs)
      first == Firsts(logs)
      shown == {i \in first : Cardinality({j \in first : j > i}) < ShowLast}
  IN  /\ Len(u) <= ShowLast
      /\ Len(u) = Cardinality(shown)
      /\ \A i \in shown : u[Cardinality({j \in shown : j < i}) + 1] = logs[i]
      /\ Cardinality(first) = Len(logs) => u = SliceLast(logs, ShowLast)

C17_Witness ==
  /\ Len(logs) = LogKeep + 1
  /\ Len(UniqueLogs(logs)) = ShowLast
  /\ UniqueLogs(logs) # SliceLast(logs, ShowLast)
  /\ \E i \in 1..Len(logs) : i \notin Firsts(logs)

\* --- ThinkTank --------------------------------------------------------

QuizLive == qPhase = "live" /\ qPhase' = "live"
QuizMounts == qPhase = "none" /\ qPhase' = "live"
ZeroMember(m) ==
  /\ m.totalBonus = Num(0) /\ m.questionsAnswered = Num(0)
  /\ m.correctAnswers = Num(0) /\ m.lastActivity = Str("Never")

\* C18 - every operation that changes teamData (an award of
\* handleAwardPoint, a confirmed resetAllTeamData) writes the whole new map
\* under 'thinkTankTeamData'; once the item exists, reading it back gives
\* the teamData in memory.
C18_Agree ==
  (qPhase = "live" /\ storage # NoItem) => Parse(storage) = teamData

C18_Rewritten ==
  /\ (QuizLive /\ teamData' # teamData) =>
        /\ storage' = Stringify(teamData')
        /\ Parse(storage') = teamData'
        /\ qLast' = "awarded" \/ View = "leaderboard"
  /\ (QuizLive /\ qLast' = "awarded") =>
        /\ teamData' # teamData
        /\ storage' = Stringify(teamData')

C18_SnapshotRewrittenInFull == [](C18_Agree) /\ [][C18_Rewritten]_vars

C18_Witness ==
  /\ qPhase = "live" /\ qLast = "awarded"
  /\ DOMAIN teamData = {"Ana", "Ben"}
  /\ teamData["Ana"].totalBonus = Num(1)
  /\ teamData["Ben"].totalBonus = Num(1)
  /\ storage = Stringify(teamData)

\* C19 - a mount of ThinkTank reads the stored item and leaves it as it is:
\* teamData starts as the parsed snapshot if there is one, else with every
\* name of TEAM_MEMBERS at zero and 'Never'; a remount gives back the
\* teamData the component had when it was unmounted.
C19_Mount ==
  QuizMounts =>
    /\ storage' = storage
    /\ storage # NoItem => teamData' = Parse(storage)
    /\ storage = NoItem =>
         /\ DOMAIN teamData' = {TEAM_MEMBERS[k] : k \in 1..Len(TEAM_MEMBERS)}
         /\ \A n \in DOMAIN teamData' :
               teamData'[n].name = Str(n) /\ ZeroMember(teamData'[n])
    /\ teamData # NoTeam => teamData' = teamData

C19_RoundTripAtStartup == [][C19_Mount]_vars

C19_Witness ==
  /\ qPhase = "live" /\ qLast = "mount"
  /\ "Ana" \in DOMAIN teamData
  /\ teamData["Ana"].totalBonus = Num(1)
  /\ teamData["Ana"].lastActivity = LocaleString(1)
  /\ storage = Stringify(teamData)

\* C20 - a click on Give +1 Point with nobody selected ends in the alert,
\* one with a name teamData has no key for ends silently, and only these
\* two are turned down; both leave teamData, awardedForQuestion and the
\* stored item as they were, and the question can still be awarded.
C20_StillAwardable ==
  /\ AwardBox'
  /\ ~Awarded(awardedForQuestion', currentQuestion')
  /\ \E who \in DOMAIN teamData' :
        HandleAwardPoint(currentQuestion', who, awardedForQuestion',
                         teamData', now').outcome = "awarded"

C20_Attempt ==
  /\ qLast' = "alert" <=>
        (qLast' \in {"alert", "nokey", "awarded"} /\ awardMember = "")
  /\ qLast' = "nokey" =>
        awardMember # "" /\ awardMember \notin DOMAIN teamData
  /\ qLast' = "awarded" =>
        awardMember # "" /\ awardMember \in DOMAIN teamData
  /\ qLast' \in {"alert", "nokey"} =>
        /\ teamData' = teamData
        /\ awardedForQuestion' = awardedForQuestion
        /\ storage' = storage
        /\ C20_StillAwardable

C20_AwardInputValidated == [][C20_Attempt]_vars

C20_Witness ==
  /\ qPhase = "live" /\ qLast = "alert"
  /\ awardMember = ""
  /\ AwardBox
  /\ ~Awarded(awardedForQuestion, currentQuestion)
  /\ storage # NoItem

\* --- the demo modes ----------------------------------------------------

\* C21 - while DemoApp is mounted, the withoutRecreations and
\* withRecreations PerformanceMonitor shows equal the
\* effectRecreationCount of the component they belong to, when that
\* component is mounted.
C21_MetricsAccurate ==
  dPhase = "live" =>
    /\ without.phase = "live" => withoutRecreations = without.effects
    /\ phase[W] = "live" => wReported = wEffects

\* C22 - once a click on a demo-mode button has been processed, with the
\* render committed and the effects and cleanups of the children run, the
\* log buffer is empty and both recreation metrics are 0.
C22_SwitchClears ==
  (dPhase = "live" /\ switched) =>
    /\ logs = <<>>
    /\ withoutRecreations = 0
    /\ wReported = 0

\* C23 - no timer leak.  A mounted demo component has exactly one interval
\* running, the one its latest run of the timer effect set, and an
\* unmounted one has none; a recreation clears the old interval and logs
\* its destroyed line before the created line of the new one; in the log
\* buffer no tick of timer #n follows the created line of a later timer.
OCreatedAt(line, n) ==
  line[4][1] = "WITHOUT: Timer created #" /\ line[4][2] = n
OTickOf(line, n) ==
  line[4][1] = "WITHOUT: Timer tick #" /\ line[4][2] = n
WCreatedAt(line, n) ==
  line[4][1] = "WITH: " /\ line[4][2] = CreatedMsg(n)
WTickOf(line, n) ==
  line[4][1] = "WITH: " /\ line[4][2] = TickMsg(n)

C23_Owned ==
  /\ wTimers = IF phase[W] = "live" THEN {wEffects} ELSE {}
  /\ without.timers = IF without.phase = "live" THEN {without.effects} ELSE {}
  /\ (timer[W] # NoHandle) = (wTimers # {})
  /\ without.timer.live = (without.timers # {})

C23_LogOrder ==
  \A i, j \in 1..Len(logs) : \A n \in 1..MaxDemoRenders : \A m \in 1..n :
     (i < j /\ m < n) =>
        /\ ~(OCreatedAt(logs[i], n) /\ OTickOf(logs[j], m))
        /\ ~(WCreatedAt(logs[i], n) /\ WTickOf(logs[j], m))

C23_Recreation ==
  /\ (DemoStays /\ without.phase = "live" /\ without'.phase = "live"
        /\ without'.timer # [without.timer EXCEPT !.at = without'.timer.at]) =>
        /\ without'.effects = without.effects + 1
        /\ without'.timers = {without.effects + 1}
        /\ Len(logs') >= 2
        /\ LastLog(logs') = Stamp(now', OCreatedMsg(without.effects + 1, now'))
        /\ logs'[Len(logs') - 1] = Stamp(now', ODestroyedMsg(without.effects, now'))
  /\ (DemoStays /\ phase[W] = "live" /\ phase'[W] = "live") =>
        timer'[W] = timer[W] /\ wTimers' = wTimers

C23_NoTimerLeak == [](C23_Owned /\ C23_LogOrder) /\ [][C23_Recreation]_vars

C23_Witness ==
  /\ dPhase = "live" /\ activeComponent = "without"
  /\ phase[W] # "live" /\ wTimers = {} /\ timer[W] = NoHandle
  /\ without.effects = 2 /\ without.timers = {2}
  /\ Len(logs) >= 3
  /\ OTickOf(LastLog(logs), 2)
  /\ OCreatedAt(logs[Len(logs) - 1], 2)
  /\ logs[Len(logs) - 2][4][1] = "WITHOUT: Timer #"

\* --- ThinkTank: the quiz run ---------------------------------------------

RECURSIVE BonusOf(_, _)
BonusOf(data, names) ==
  IF names = {} THEN 0
  ELSE LET n == CHOOSE x \in names : TRUE
       IN  data[n].totalBonus[2] + BonusOf(data, names \ {n})
TotalBonus(data) == BonusOf(data, DOMAIN data)

\* C24 - at most one award per question in a quiz run.  An award is given
\* for a question that had none and is recorded under its index, adding 1
\* to the bonus of the team; a call of handleAwardPoint for a question that
\* has its award changes nothing, whoever is selected; so the points
\* granted since the record of awards was last emptied are at most as many
\* as there are questions.
C24_Recorded ==
  qPhase = "live" =>
    /\ DOMAIN awardedForQuestion \subseteq Questions
    /\ Cardinality(DOMAIN awardedForQuestion) <= Cardinality(Questions)
    /\ \A q \in DOMAIN awardedForQuestion :
         \A who \in {""} \cup {TEAM_MEMBERS[k] : k \in 1..Len(TEAM_MEMBERS)} :
            LET r == HandleAwardPoint(q, who, awardedForQuestion, teamData, now)
            IN  /\ r.data = teamData
                /\ r.awarded = awardedForQuestion
                /\ ~r.saves

C24_Award ==
  /\ (QuizLive /\ qLast' = "awarded") =>
        /\ currentQuestion \notin DOMAIN awardedForQuestion
        /\ awardedForQuestion' =
             (currentQuestion :> awardMember) @@ awardedForQuestion
        /\ TotalBonus(teamData') = TotalBonus(teamData) + 1
  /\ (QuizLive /\ TotalBonus(teamData') > TotalBonus(teamData)) =>
        qLast' = "awarded"

RetakeStep == QuizLive /\ showResults /\ ~showResults'

\* C24, as stated - a run lasts from one resetQuiz call to the next: only
\* Retake Quiz empties the record of awards.
C24_EmptiedByResetQuiz ==
  (qLast' # "awarded" /\ awardedForQuestion' # awardedForQuestion) =>
     RetakeStep /\ awardedForQuestion' = <<>>

C24_OneAwardBetweenResets ==
  [](C24_Recorded) /\ [][C24_Award /\ C24_EmptiedByResetQuiz]_vars

\* C24, amended - a run lasts from a mount of ThinkTank or a resetQuiz call
\* to the next of them: the record of awards is emptied by Retake Quiz and
\* when the component leaves the page, and a mount starts with none.
C24_EmptiedByRunStart ==
  /\ (qLast' # "awarded" /\ awardedForQuestion' # awardedForQuestion) =>
        /\ RetakeStep \/ (qPhase = "live" /\ qPhase' = "none")
        /\ awardedForQuestion' = <<>>
  /\ QuizMounts => awardedForQuestion' = <<>>

C24_OneAwardPerQuestion ==
  [](C24_Recorded) /\ [][C24_Award /\ C24_EmptiedByRunStart]_vars

\* Both questions of a run awarded, the run being a later one than the
\* first: the team has more points than the run granted.
C24_Witness ==
  /\ qPhase = "live" /\ qLast = "awarded"
  /\ DOMAIN awardedForQuestion = {0}
  /\ awardedForQuestion[0] = "Ana"
  /\ "Ana" \in DOMAIN teamData
  /\ teamData["Ana"].totalBonus = Num(2)

\* C25 - awards only for correct answers: every question that has its
\* award has a selected answer, and it is the right one.
C25_AwardedWereCorrect ==
  qPhase = "live" =>
    \A q \in DOMAIN awardedForQuestion :
       /\ q \in DOMAIN selectedAnswers
       /\ selectedAnswers[q] = CorrectAnswer[q]

C25_Witness ==
  /\ qPhase = "live"
  /\ DOMAIN selectedAnswers = Questions
  /\ selectedAnswers[0] # CorrectAnswer[0]
  /\ selectedAnswers[1] = CorrectAnswer[1]
  /\ DOMAIN awardedForQuestion = {1}
  /\ showResults

\* C26 - the counters of a member stay in step: totalBonus, correctAnswers
\* and questionsAnswered are one number, not negative, and lastActivity is
\* 'Never' exactly when that number is 0.
C26_CountersInStep ==
  \A n \in DOMAIN teamData :
     LET m == teamData[n]
     IN  /\ m.totalBonus[1] = "num" /\ m.totalBonus[2] >= 0
         /\ m.correctAnswers = m.totalBonus
         /\ m.questionsAnswered = m.totalBonus
         /\ (m.lastActivity = Str("Never")) = (m.totalBonus = Num(0))

C26_Witness ==
  /\ qPhase = "live" /\ qLast = "awarded"
  /\ DOMAIN teamData = {"Ana", "Ben"}
  /\ teamData["Ana"].totalBonus = Num(2)
  /\ teamData["Ana"].lastActivity = LocaleString(1)
  /\ teamData["Ben"].lastActivity = Str("Never")
  /\ DOMAIN awardedForQuestion = {0}

\* C27 - the position stays in range.  currentQuestion is an index of
\* quizQuestions; nextQuestion adds 1 to it, except on the last question,
\* where it leaves it and sets showResults; showResults is set in no other
\* way, and so only when every question has a selected answer; the position
\* changes otherwise only when Retake Quiz puts it back to 0.
NextStep == QuizLive /\ showExplanation /\ ~showExplanation'

C27_InRange ==
  /\ currentQuestion \in 0..(Cardinality(Questions) - 1)
  /\ showResults =>
       /\ DOMAIN selectedAnswers = Questions
       /\ currentQuestion = Cardinality(Questions) - 1

C27_Next ==
  /\ NextStep =>
       IF currentQuestion < Cardinality(Questions) - 1
         THEN currentQuestion' = currentQuestion + 1 /\ ~showResults'
         ELSE currentQuestion' = currentQuestion /\ showResults'
  /\ (QuizLive /\ ~showResults /\ showResults') =>
       NextStep /\ currentQuestion = Cardinality(Questions) - 1
  /\ (QuizLive /\ currentQuestion' # currentQuestion /\ ~NextStep) =>
       RetakeStep /\ currentQuestion' = 0

C27_PositionInRange == [](C27_InRange) /\ [][C27_Next]_vars

C27_Witness ==
  /\ qPhase = "live" /\ showResults /\ ~showExplanation
  /\ currentQuestion = Cardinality(Questions) - 1
  /\ DOMAIN selectedAnswers = Questions
  /\ ~showLeaderboard

\* C28 - an answer is locked once given.  handleAnswer writes the answer
\* of the current question, which had none, and shows the explanation;
\* while the explanation is shown the current question has its answer and
\* no step writes an answer; in a run the answers given are those of the
\* questions before the current one, and of the current one once the
\* explanation is shown, and they change only when Retake Quiz drops all.
C28_Answered ==
  qPhase = "live" =>
    DOMAIN selectedAnswers =
      {q \in Questions :
         q < currentQuestion \/ (q = currentQuestion /\ (showExplanation \/ showResults))}

C28_Write ==
  /\ (QuizLive /\ selectedAnswers' # selectedAnswers /\ ~RetakeStep) =>
        /\ ~showExplanation /\ showExplanation'
        /\ currentQuestion' = currentQuestion
        /\ currentQuestion \notin DOMAIN selectedAnswers
        /\ DOMAIN selectedAnswers' = DOMAIN selectedAnswers \cup {currentQuestion}
        /\ \A q \in DOMAIN selectedAnswers : selectedAnswers'[q] = selectedAnswers[q]
  /\ (QuizLive /\ showExplanation /\ showExplanation') =>
        selectedAnswers' = selectedAnswers
  /\ RetakeStep => selectedAnswers' = <<>>

C28_AnswerLocked == [](C28_Answered) /\ [][C28_Write]_vars

C28_Witness ==
  /\ qPhase = "live" /\ showExplanation /\ currentQuestion = 1
  /\ DOMAIN selectedAnswers = Questions
  /\ selectedAnswers[0] = CorrectAnswer[0]
  /\ selectedAnswers[1] # CorrectAnswer[1]
  /\ showLeaderboard

====
